---- MODULE Spec2Model ----
(***************************************************************************)
(* polyfsck (src/tools/polyfs/polyfsck.c): the checker of a PolyFS image.  *)
(* main() runs test_super, test_crc and test_fs in this order; every fatal *)
(* condition calls die(), which exits the process with its status.         *)
(*                                                                         *)
(* The image is an input.  Its superblocks are fixed in the initial state; *)
(* the inode records and block pointers the walker reads are revealed when *)
(* the walker first reads them and stay what they were revealed to be.     *)
(* The checksum stage reads the image as raw bytes, kept as runs of equal  *)
(* bytes; the walker reads decoded records.                                *)
(***************************************************************************)
EXTENDS Integers, Sequences, FiniteSets, TLC

(***************************************************************************)
(* Program constants.                                                      *)
(***************************************************************************)
FSCK_OK == 0
FSCK_UNCORRECTED == 4
FSCK_ERROR == 8
PAD_SIZE == 512
\* polyfs/polyfs_fs.h is not part of the sources at hand: these two come
\* from the format description (block size 4096; a 76-byte superblock that
\* embeds the 12-byte root inode; a 12-byte packed inode record).
POLYFS_BLOCK_SIZE == 4096
SuperSize == 76
InodeSize == 12
\* offsetof(struct polyfs_super, fsid.crc): magic, size, flags, future (4
\* bytes each) and the 16-byte signature precede it.
CrcFieldOffset == 32
CrcFieldSize == 4
\* ~0UL, the "undefined" value of start_dir and start_data.  It is larger
\* than every offset an image can hold; the model uses the largest integer
\* TLC represents.
ULONG_MAX == 2147483647

\* The feature flags of polyfs_fs.h, as names; POLYFS_SUPPORTED_FLAGS is the
\* set of the four the format defines.
POLYFS_FLAG_FSID_VERSION_1 == "FSID_VERSION_1"
POLYFS_FLAG_SHIFTED_ROOT_OFFSET == "SHIFTED_ROOT_OFFSET"
POLYFS_FLAG_ZLIB_COMPRESSION == "ZLIB_COMPRESSION"
POLYFS_FLAG_LZO_COMPRESSION == "LZO_COMPRESSION"
POLYFS_SUPPORTED_FLAGS ==
    { POLYFS_FLAG_FSID_VERSION_1, POLYFS_FLAG_SHIFTED_ROOT_OFFSET,
      POLYFS_FLAG_ZLIB_COMPRESSION, POLYFS_FLAG_LZO_COMPRESSION }

(***************************************************************************)
(* Bounds of the model.                                                    *)
(***************************************************************************)
\* How many distinct inode records of the image the walker may read.
MaxInodes == 2
\* How many blocks the largest regular file of the model has.
MaxBlocks == 3
\* How many do_directory() calls may be nested.
MaxDepth == 3

Min(a, b) == IF a < b THEN a ELSE b
Max(a, b) == IF a > b THEN a ELSE b

(***************************************************************************)
(* Byte strings as runs.  A run [n, v, o] is n bytes of the source v read  *)
(* from its position o on.  The source "zero" is the zero byte (o = 0);   *)
(* the source "img" is the image file, o a position in it.  Bytes of       *)
(* different sources or positions are different data.                      *)
(***************************************************************************)
Run(n, v, o) == [n |-> n, v |-> v, o |-> o]
ZeroRun(n) == Run(n, "zero", 0)

RECURSIVE RunsLen(_)
RunsLen(s) == IF s = <<>> THEN 0 ELSE Head(s).n + RunsLen(Tail(s))

\* Whether run b continues run a: the same source, read on from where a ends.
Continues(a, b) ==
    /\ a.v = b.v
    /\ (a.v = "zero" \/ b.o = a.o + a.n)

\* The runs without the empty ones, adjacent runs that continue each other
\* merged: equal byte strings have equal canonical runs.
RECURSIVE Canon(_)
Canon(s) ==
    IF s = <<>> THEN <<>>
    ELSE IF Head(s).n = 0 THEN Canon(Tail(s))
    ELSE LET rest == Canon(Tail(s))
         IN IF rest # <<>> /\ Continues(Head(s), Head(rest))
            THEN <<Run(Head(s).n + Head(rest).n, Head(s).v, Head(s).o)>> \o Tail(rest)
            ELSE <<Head(s)>> \o rest

\* The first k bytes of s (all of s when it is shorter).
RECURSIVE Take(_, _)
Take(s, k) ==
    IF s = <<>> \/ k <= 0 THEN <<>>
    ELSE IF Head(s).n <= k THEN <<Head(s)>> \o Take(Tail(s), k - Head(s).n)
    ELSE <<Run(k, Head(s).v, Head(s).o)>>

\* s without its first k bytes.
RECURSIVE Drop(_, _)
Drop(s, k) ==
    IF s = <<>> \/ k <= 0 THEN s
    ELSE IF Head(s).n <= k THEN Drop(Tail(s), k - Head(s).n)
    ELSE <<Run(Head(s).n - k, Head(s).v,
               IF Head(s).v = "zero" THEN 0 ELSE Head(s).o + k)>> \o Tail(s)

\* The bytes [a, b) of s.
Slice(s, a, b) == Canon(Take(Drop(s, a), b - a))

\* s with the bytes [a, a + n) replaced by the runs w (n bytes long);
\* the part of the range past the end of s is not written.
Overwrite(s, a, w) ==
    LET len == RunsLen(s)
        n == Min(RunsLen(w), Max(len - a, 0))
    IN Canon(Take(s, a) \o Take(w, n) \o Drop(s, a + n))

(***************************************************************************)
(* State.                                                                  *)
(***************************************************************************)
VARIABLES
    file,        \* the image file: what stat() says of it and its superblocks
    env,         \* the run's options and which system or library call fails
    pc,          \* where main() is
    status,      \* <<>> while running, <<code>> once the process has exited
    msg,         \* the diagnostic of die()
    warned,      \* whether the "file extends past end" warning was printed
    stages,      \* the stages main() has entered so far, in order
    start,       \* main()'s start
    length,      \* main()'s length
    super,       \* the superblock test_super() read last
    start_dir, end_dir, start_data, end_data,
    stack,       \* the do_directory() frames, innermost last
    call,        \* the inode expand_fs() is about to dispatch, or NoCall
    unc,         \* the state of do_uncompress()'s loop, or NoUnc
    img,         \* the inode records read so far, by image offset
    ptrs,        \* the block pointers read so far, by image offset
    outbuffer,   \* the decompression scratch buffer, as runs
    sink,        \* the write() calls of extraction, in order
    nodes        \* how many inodes expand_fs() has dispatched

vars == << file, env, pc, status, msg, warned, stages, start, length, super,
           start_dir, end_dir, start_data, end_data, stack, call, unc, img,
           ptrs, outbuffer, sink, nodes >>

walkVars == << start_dir, end_dir, start_data, end_data, stack, call, unc,
               img, ptrs, outbuffer, sink, nodes >>

\* An inode record as polyfs_iget() returns it.  mode is the file type of
\* the mode bits ("bogus" for any other S_IFMT value); offset and namelen
\* are in 4-byte units; strlen is the length of the name up to its first NUL
\* (at most namelen * 4).  uid, gid and the permission bits play no part in
\* the checks.
Inode(mode, offset, size, namelen, strlen) ==
    [mode |-> mode, offset |-> offset, size |-> size, namelen |-> namelen,
     strlen |-> strlen]

NoCall == Inode("none", 0, 0, 0, 0)
NoUnc == [active |-> FALSE, offset |-> 0, size |-> 0, curr |-> 0, k |-> 0,
          first |-> 0, total |-> 0]

Superblock(magic, size, flags, crc, files, root) ==
    [magic |-> magic, size |-> size, flags |-> flags, crc |-> crc,
     files |-> files, root |-> root]

\* What lies where the image holds no superblock.
NoSuper == Superblock(FALSE, 0, {}, <<>>, 0, NoCall)

\* zlib's crc32() over a byte string, taken as an ideal checksum: the
\* checksum of a byte string stands for exactly that byte string.
\* crc32(0L, Z_NULL, 0) is the checksum of the empty string.
crc32(crc, buf) == Canon(crc \o buf)

\* The bytes of the image file.
FileBytes(f) == << Run(f.size, "img", 0) >>

(***************************************************************************)
(* die(): print the diagnostic and exit with the status.                   *)
(***************************************************************************)
die(code, text) ==
    /\ pc' = "exited"
    /\ status' = << code >>
    /\ msg' = text

(***************************************************************************)
(* test_super()                                                            *)
(***************************************************************************)
\* The size test_super() finds: BLKGETSIZE counts 512-byte sectors.
FileLength(f) ==
    IF f.kind = "blk" THEN (f.size \div 512) * 512 ELSE f.size

\* Lines 173-178, had test_super() looked at offset 0 only.
FindSuperNoPad(f, len) == [start |-> 0, super |-> f.sb0]

\* Lines 173-187: the superblock read and the start it gives.  The second
\* read replaces the first even when it finds no magic.
FindSuper(f, len) ==
    IF f.sb0.magic THEN [start |-> 0, super |-> f.sb0]
    ELSE IF len >= PAD_SIZE + SuperSize
         THEN [start |-> IF f.sb512.magic THEN PAD_SIZE ELSE 0,
               super |-> f.sb512]
         ELSE [start |-> 0, super |-> f.sb0]

Fatal(code, text) == [fatal |-> TRUE, code |-> code, text |-> text]
Pass == [fatal |-> FALSE, code |-> FSCK_OK, text |-> ""]

\* Lines 190-222, the size tested before the flags.
SuperTestsSizeFirst(sb, len) ==
    IF ~sb.magic THEN Fatal(FSCK_UNCORRECTED, "superblock magic not found")
    ELSE IF sb.size < POLYFS_BLOCK_SIZE
    THEN Fatal(FSCK_UNCORRECTED, "superblock size too small")
    ELSE IF sb.flags \ POLYFS_SUPPORTED_FLAGS # {}
    THEN Fatal(FSCK_ERROR, "unsupported filesystem features")
    ELSE IF POLYFS_FLAG_FSID_VERSION_1 \in sb.flags
    THEN IF sb.files = 0 THEN Fatal(FSCK_UNCORRECTED, "zero file count")
         ELSE IF len < sb.size
         THEN Fatal(FSCK_UNCORRECTED, "file length too short")
         ELSE Pass
    ELSE Fatal(FSCK_UNCORRECTED, "invalid filesystem version")

\* Lines 190-222: the superblock tests, in the order of the code.
SuperTests(sb, len) ==
    IF ~sb.magic THEN Fatal(FSCK_UNCORRECTED, "superblock magic not found")
    ELSE IF sb.flags \ POLYFS_SUPPORTED_FLAGS # {}
    THEN Fatal(FSCK_ERROR, "unsupported filesystem features")
    ELSE IF sb.size < POLYFS_BLOCK_SIZE
    THEN Fatal(FSCK_UNCORRECTED, "superblock size too small")
    ELSE IF POLYFS_FLAG_FSID_VERSION_1 \in sb.flags
    THEN IF sb.files = 0 THEN Fatal(FSCK_UNCORRECTED, "zero file count")
         ELSE IF len < sb.size
         THEN Fatal(FSCK_UNCORRECTED, "file length too short")
         ELSE Pass
    ELSE Fatal(FSCK_UNCORRECTED, "invalid filesystem version")

\* Lines 148-170: what stops test_super() before it reads a superblock.
OpenTests(f, e) ==
    IF e.ioerr = "stat" THEN Fatal(FSCK_ERROR, "stat failed")
    ELSE IF e.ioerr = "open" THEN Fatal(FSCK_ERROR, "open failed")
    ELSE IF f.kind = "blk" /\ e.ioerr = "ioctl"
    THEN Fatal(FSCK_ERROR, "ioctl failed")
    ELSE IF f.kind \notin {"blk", "reg"}
    THEN Fatal(FSCK_ERROR, "not a block device or file")
    ELSE IF FileLength(f) < SuperSize
    THEN Fatal(FSCK_UNCORRECTED, "filesystem smaller than a polyfs superblock")
    ELSE IF e.ioerr = "read" THEN Fatal(FSCK_ERROR, "read failed")
    ELSE Pass

TestSuper ==
    /\ pc = "test_super"
    /\ stages' = Append(stages, "test_super")
    /\ LET opened == OpenTests(file, env)
           found == FindSuper(file, FileLength(file))
           tested == SuperTests(found.super, FileLength(file))
       IN IF opened.fatal
          THEN /\ die(opened.code, opened.text)
               /\ UNCHANGED << start, length, super, warned >>
          ELSE /\ length' = FileLength(file)
               /\ start' = found.start
               /\ super' = found.super
               /\ IF tested.fatal
                  THEN /\ die(tested.code, tested.text)
                       /\ UNCHANGED warned
                  ELSE /\ pc' = "test_crc"
                       /\ warned' = (FileLength(file) > found.super.size)
                       /\ UNCHANGED << status, msg >>
    /\ UNCHANGED << file, env >>
    /\ UNCHANGED walkVars

(***************************************************************************)
(* test_crc()                                                              *)
(***************************************************************************)
\* Lines 262-279: the read() loop over 4096-byte chunks from `start` on;
\* `len` is the count of bytes read so far.  The checksum field is zeroed
\* in the first chunk only.
RECURSIVE ReadLoop(_, _, _, _, _)
ReadLoop(bytes, crc, pos, len, want) ==
    LET got == Slice(bytes, pos, pos + 4096)
        retval == RunsLen(got)
        buf == IF len = 0
               THEN Overwrite(got, CrcFieldOffset, <<ZeroRun(CrcFieldSize)>>)
               ELSE got
        len2 == len + retval
    IN IF retval = 0 THEN crc
       ELSE IF len2 > want
       THEN crc32(crc, Take(buf, retval - (len2 - want)))
       ELSE ReadLoop(bytes, crc32(crc, buf), pos + retval, len2, want)

\* Lines 238-281, the checksum taken over super.size bytes from start on.
ComputeCrcFromStart(f, e, sb, st) ==
    crc32(<<>>, Slice(Overwrite(FileBytes(f), st + CrcFieldOffset,
                                <<ZeroRun(CrcFieldSize)>>),
                      st, st + sb.size))

\* Lines 238-281: the checksum test_crc() computes.  Both mmap() calls map
\* super.size bytes of the file from its offset 0; the checksum is taken
\* over the super.size - start bytes from buf + start on.
ComputeCrc(f, e, sb, st) ==
    IF e.mmap \in {"file", "anon"}
    THEN LET buf == Slice(FileBytes(f), 0, sb.size)
             patched == Overwrite(buf, st + CrcFieldOffset,
                                  <<ZeroRun(CrcFieldSize)>>)
         IN crc32(<<>>, Take(Drop(patched, st), sb.size - st))
    ELSE ReadLoop(FileBytes(f), <<>>, st, 0, sb.size - st)

TestCrc ==
    /\ pc = "test_crc"
    /\ stages' = Append(stages, "test_crc")
    /\ IF POLYFS_FLAG_FSID_VERSION_1 \notin super.flags
       THEN /\ pc' = "test_fs"
            /\ UNCHANGED << status, msg >>
       ELSE IF env.mmap = "none" /\ env.ioerr = "malloc_crc"
       THEN die(FSCK_ERROR, "malloc failed")
       ELSE IF ComputeCrc(file, env, super, start) # super.crc
       THEN die(FSCK_UNCORRECTED, "crc error")
       ELSE /\ pc' = "test_fs"
            /\ UNCHANGED << status, msg >>
    /\ UNCHANGED << file, env, warned, start, length, super >>
    /\ UNCHANGED walkVars

(***************************************************************************)
(* The image as the walker reads it.                                       *)
(***************************************************************************)
\* iget(offset): the inode records the image may hold at `offset`.  A record
\* read before is read again as it was; a new one is any of `inodes`, as
\* long as the model's bound on the records read allows it.
InodesAt(offset, inodes) ==
    IF offset \in DOMAIN img THEN { img[offset] }
    ELSE IF Cardinality(DOMAIN img) < MaxInodes THEN inodes
    ELSE {}

\* *(uint32_t *) romfs_read(offset): the block pointers the image may hold
\* at `offset`, `deltas` being the distances from `curr` the model draws.
PointersAt(offset, curr, deltas) ==
    IF offset \in DOMAIN ptrs THEN { ptrs[offset] }
    ELSE { curr + d : d \in { x \in deltas : curr + x >= 0 } }

\* (unsigned long) of an int.
ToULong(x) == IF x < 0 THEN ULONG_MAX + (x + 1) ELSE x

HasFlag(flag) == flag \in super.flags

(***************************************************************************)
(* uncompress_block(src, len): `curr` is the image offset of src, `lib`    *)
(* what the decompression library makes of these bytes: lib.r1 is the      *)
(* length the first decompression yields (-1: it fails), lib.r2 how the    *)
(* overlapping LZO decompression ends ("ok", "err", or "differ": another   *)
(* length or checksum).  The result: whether die() was called and with     *)
(* what, the return value and the scratch buffer afterwards.               *)
(***************************************************************************)
Unc(fatal, text, out, buf) ==
    [fatal |-> fatal, text |-> text, out |-> out, buf |-> buf]

\* Lines 411-416: the uncompressed mode.  Nothing is stored in outbuffer.
StoredBlock(curr, len, buf) ==
    IF len > POLYFS_BLOCK_SIZE
    THEN Unc(TRUE, "data block too large", 0, buf)
    ELSE Unc(FALSE, "", len, buf)

\* Lines 354-391: LZO, calloc() failing when env says so.
\* lzo1x_decompress_safe() succeeds only when it has
\* consumed exactly len bytes, which no negative len (a huge lzo_uint)
\* allows; the second decompression has room for POLYFS_BLOCK_SIZE bytes
\* only when len >= POLYFS_BLOCK_SIZE.
LzoBlock(curr, len, lib, buf) ==
    LET outlen == lib.r1
        room == IF len < POLYFS_BLOCK_SIZE THEN outlen ELSE POLYFS_BLOCK_SIZE
        filled == Overwrite(buf, 0, <<Run(Max(outlen, 0), "lzo", curr)>>)
    IN IF len > POLYFS_BLOCK_SIZE + (POLYFS_BLOCK_SIZE \div 16) + 64 + 3
       THEN Unc(TRUE, "data block too large", 0, buf)
       ELSE IF outlen < 0 \/ len < 0
       THEN Unc(TRUE, "decompression error", 0, buf)
       ELSE IF env.ioerr = "calloc_lzo"
       THEN Unc(TRUE, "memory allocation failed", 0, filled)
       ELSE IF lib.r2 = "err" \/ outlen > room
       THEN Unc(TRUE, "LZO overlap decompression failed (1)", 0, filled)
       ELSE IF lib.r2 = "differ"
       THEN Unc(TRUE, "LZO overlap decompression failed (2)", 0, filled)
       ELSE Unc(FALSE, "", outlen, filled)

\* Lines 392-410: zlib.
ZlibBlock(curr, len, lib, buf) ==
    LET filled == Overwrite(buf, 0, <<Run(Max(lib.r1, 0), "zlib", curr)>>)
    IN IF len > POLYFS_BLOCK_SIZE * 2
       THEN Unc(TRUE, "data block too large", 0, buf)
       ELSE IF lib.r1 < 0
       THEN Unc(TRUE, "decompression error", 0, buf)
       ELSE Unc(FALSE, "", lib.r1, filled)

uncompress_block(curr, len, lib, buf) ==
    IF HasFlag(POLYFS_FLAG_LZO_COMPRESSION) THEN LzoBlock(curr, len, lib, buf)
    ELSE IF HasFlag(POLYFS_FLAG_ZLIB_COMPRESSION)
    THEN ZlibBlock(curr, len, lib, buf)
    ELSE StoredBlock(curr, len, buf)

\* What the library may make of a block: nothing is drawn in the
\* uncompressed mode, which does not call it.
LibOutcomes(outs) ==
    IF HasFlag(POLYFS_FLAG_LZO_COMPRESSION)
    THEN [r1 : outs, r2 : {"ok", "err", "differ"}]
    ELSE IF HasFlag(POLYFS_FLAG_ZLIB_COMPRESSION)
    THEN [r1 : outs, r2 : {"ok"}]
    ELSE [r1 : {0}, r2 : {"ok"}]

\* A call of the extraction sink: `op` with its data; `at` is the payload
\* offset of the inode it is made for.
SinkCall(op, at, data) == [op |-> op, at |-> at, data |-> data]

\* Whether the host refuses the system call `op` of extraction.
HostFails(op) == env.hostfail = op

\* Extraction creates a node with `op` and then calls change_file_status()
\* on it (lines 465-486); either may fail, and nothing is done without -x.
HostTest(op) ==
    IF ~env.opt_extract THEN Pass
    ELSE IF HostFails(op) THEN Fatal(FSCK_ERROR, op \o " failed")
    ELSE IF HostFails("chown") THEN Fatal(FSCK_ERROR, "lchown failed")
    ELSE Pass

\* The sink after `op`, which is recorded when the host carried it out.
SinkAfter(op, at, data) ==
    IF env.opt_extract /\ ~HostFails(op)
    THEN Append(sink, SinkCall(op, at, data))
    ELSE sink

(***************************************************************************)
(* do_uncompress(): one pass through the body of its do-while loop.        *)
(***************************************************************************)
\* Lines 436-437: the length of a hole.
HoleLen(size) == IF size < POLYFS_BLOCK_SIZE THEN size ELSE POLYFS_BLOCK_SIZE

\* Lines 446-454, had every length been accepted.
BlockLenAny(size, out) == TRUE

\* Lines 446-454: the length a block must have, `size` bytes being left.
BlockLenOk(size, out) ==
    IF size >= POLYFS_BLOCK_SIZE THEN out = POLYFS_BLOCK_SIZE ELSE out = size

\* Line 421: where the compressed data of a file starts.
FirstBlock(offset, size) ==
    offset + 4 * ((size + POLYFS_BLOCK_SIZE - 1) \div POLYFS_BLOCK_SIZE)

UncompressStep(deltas, outs) ==
    /\ pc = "walk"
    /\ unc.active
    /\ \E next \in PointersAt(unc.offset, unc.curr, deltas) :
       \E lib \in LibOutcomes(outs) :
          LET hole == unc.curr = next
              res == IF hole
                     THEN Unc(FALSE, "", HoleLen(unc.size),
                              Overwrite(outbuffer, 0,
                                        <<ZeroRun(HoleLen(unc.size))>>))
                     ELSE uncompress_block(unc.curr, next - unc.curr, lib,
                                           outbuffer)
              out == ToULong(res.out)
              left == unc.size - out
          IN /\ ptrs' = IF unc.offset \in DOMAIN ptrs THEN ptrs
                        ELSE ptrs @@ (unc.offset :> next)
             /\ end_data' = IF next > end_data THEN next ELSE end_data
             /\ outbuffer' = res.buf
             /\ IF res.fatal
                THEN /\ die(FSCK_UNCORRECTED, res.text)
                     /\ UNCHANGED << unc, sink, call >>
                ELSE IF ~BlockLenOk(unc.size, out)
                THEN /\ die(FSCK_UNCORRECTED,
                            IF unc.size >= POLYFS_BLOCK_SIZE
                            THEN "non-block bytes" ELSE "non-size bytes")
                     /\ UNCHANGED << unc, sink, call >>
                ELSE IF env.opt_extract /\ HostFails("write")
                THEN /\ die(FSCK_ERROR, "write failed")
                     /\ unc' = [unc EXCEPT !.size = left]
                     /\ UNCHANGED << sink, call >>
                ELSE /\ sink' = IF env.opt_extract
                                THEN Append(sink,
                                        SinkCall("write", unc.first,
                                                 Take(res.buf, out)))
                                ELSE sink
                     /\ IF left = 0
                        THEN \* the loop ends; do_file() closes the file
                             IF env.opt_extract /\ HostFails("chown")
                             THEN /\ die(FSCK_ERROR, "lchown failed")
                                  /\ UNCHANGED << unc, call >>
                             ELSE /\ unc' = NoUnc
                                  /\ call' = NoCall
                                  /\ UNCHANGED << pc, status, msg >>
                        ELSE /\ unc' = [unc EXCEPT !.offset = @ + 4,
                                                   !.size = left,
                                                   !.curr = next,
                                                   !.k = @ + 1]
                             /\ UNCHANGED << pc, status, msg, call >>
    /\ UNCHANGED << file, env, warned, stages, start, length, super,
                    start_dir, end_dir, start_data, stack, img, nodes >>

(***************************************************************************)
(* The handlers expand_fs() dispatches to.                                 *)
(***************************************************************************)
Frame(offset, count, newlen, phase) ==
    [offset |-> offset, count |-> count, newlen |-> newlen, phase |-> phase]

\* The walker is between two steps of a directory loop: no inode is being
\* dispatched and no file is being expanded.
Idle == call = NoCall /\ ~unc.active

Dispatching(modes) ==
    /\ pc = "walk"
    /\ call # NoCall
    /\ ~unc.active
    /\ call.mode \in modes

\* Lines 498-500, had the directory the two tests of do_file().
DirInodeTestStrict(i) ==
    IF i.offset * 4 = 0 /\ i.size # 0
    THEN Fatal(FSCK_UNCORRECTED,
               "directory inode has zero offset and non-zero size")
    ELSE IF i.size = 0 /\ i.offset * 4 # 0
    THEN Fatal(FSCK_UNCORRECTED,
               "directory inode has zero size and non-zero offset")
    ELSE Pass

\* Lines 498-500: the one test do_directory() makes of its inode.
DirInodeTest(i) ==
    IF i.offset * 4 = 0 /\ i.size # 0
    THEN Fatal(FSCK_UNCORRECTED,
               "directory inode has zero offset and non-zero size")
    ELSE Pass

\* Lines 488-518: do_directory() up to its loop.
DoDirectory ==
    /\ Dispatching({"dir"})
    /\ Len(stack) < MaxDepth
    /\ LET offset == call.offset * 4
           tested == DirInodeTest(call)
       IN IF env.ioerr = "malloc_path"
          THEN /\ die(FSCK_ERROR, "malloc failed")
               /\ UNCHANGED << start_dir, stack, call, sink >>
          ELSE IF tested.fatal
          THEN /\ die(tested.code, tested.text)
               /\ UNCHANGED << start_dir, stack, call, sink >>
          ELSE /\ start_dir' = IF offset # 0 /\ offset < start_dir
                               THEN offset ELSE start_dir
               /\ sink' = SinkAfter("mkdir", offset, <<>>)
               /\ IF HostTest("mkdir").fatal
                  THEN /\ die(FSCK_ERROR, HostTest("mkdir").text)
                       /\ UNCHANGED << stack, call >>
                  ELSE /\ stack' = Append(stack,
                                     Frame(offset, call.size, 0, "loop"))
                       /\ call' = NoCall
                       /\ UNCHANGED << pc, status, msg >>
    /\ UNCHANGED << file, env, warned, stages, start, length, super, end_dir,
                    start_data, end_data, unc, img, ptrs, outbuffer, nodes >>

\* Lines 531-536: the tests of a child's name.
NameTest(i) ==
    IF i.namelen * 4 = 0
    THEN Fatal(FSCK_UNCORRECTED, "filename length is zero")
    ELSE IF i.namelen * 4 - i.strlen > 3
    THEN Fatal(FSCK_UNCORRECTED, "bad filename length")
    ELSE Pass

Top == stack[Len(stack)]
SetTop(f) == [stack EXCEPT ![Len(stack)] = f]

\* Lines 519-537: the loop of do_directory() finds count > 0, reads the
\* next child and calls expand_fs() on it.
DirRead(inodes) ==
    /\ pc = "walk"
    /\ Idle
    /\ stack # <<>>
    /\ Top.phase = "loop"
    /\ Top.count > 0
    /\ \E child \in InodesAt(Top.offset, inodes) :
          LET newlen == child.namelen * 4
              tested == NameTest(child)
          IN /\ img' = IF Top.offset \in DOMAIN img THEN img
                       ELSE img @@ (Top.offset :> child)
             /\ stack' = SetTop(Frame(Top.offset + InodeSize,
                                      Top.count - (InodeSize + newlen),
                                      newlen, "ret"))
             /\ IF env.ioerr = "malloc_child"
                THEN /\ die(FSCK_ERROR, "malloc failed")
                     /\ UNCHANGED << call, nodes >>
                ELSE IF tested.fatal
                THEN /\ die(tested.code, tested.text)
                     /\ UNCHANGED << call, nodes >>
                ELSE /\ call' = child
                     /\ nodes' = nodes + 1
                     /\ UNCHANGED << pc, status, msg >>
    /\ UNCHANGED << file, env, warned, stages, start, length, super,
                    start_dir, end_dir, start_data, end_data, unc, ptrs,
                    outbuffer, sink >>

\* Line 541: the test of the offset behind a child.
ChildOffsetOk(offset) == offset > start_dir

\* Lines 539-547: expand_fs() has returned to the loop of do_directory().
ChildReturn ==
    /\ pc = "walk"
    /\ Idle
    /\ stack # <<>>
    /\ Top.phase = "ret"
    /\ LET offset == Top.offset + Top.newlen
       IN /\ stack' = SetTop(Frame(offset, Top.count, 0, "loop"))
          /\ IF ~ChildOffsetOk(offset)
             THEN /\ die(FSCK_UNCORRECTED, "bad inode offset")
                  /\ UNCHANGED end_dir
             ELSE /\ end_dir' = IF offset > end_dir THEN offset ELSE end_dir
                  /\ UNCHANGED << pc, status, msg >>
    /\ UNCHANGED << file, env, warned, stages, start, length, super,
                    start_dir, start_data, end_data, call, unc, img, ptrs,
                    outbuffer, sink, nodes >>

\* Lines 519, 549-550: the loop finds count <= 0 and do_directory() returns,
\* to the loop of the directory above or, for the root, to test_fs().
DirReturn ==
    /\ pc = "walk"
    /\ Idle
    /\ stack # <<>>
    /\ Top.phase = "loop"
    /\ Top.count <= 0
    /\ stack' = SubSeq(stack, 1, Len(stack) - 1)
    /\ pc' = IF Len(stack) = 1 THEN "test_fs_end" ELSE "walk"
    /\ UNCHANGED << file, env, status, msg, warned, stages, start, length,
                    super, start_dir, end_dir, start_data, end_data, call,
                    unc, img, ptrs, outbuffer, sink, nodes >>

\* Lines 557-562, with the second test left out.
FileInodeTestLax(i) ==
    IF i.offset * 4 = 0 /\ i.size # 0
    THEN Fatal(FSCK_UNCORRECTED,
               "file inode has zero offset and non-zero size")
    ELSE Pass

\* Lines 557-562: the tests do_file() makes of its inode.
FileInodeTest(i) ==
    IF i.offset * 4 = 0 /\ i.size # 0
    THEN Fatal(FSCK_UNCORRECTED,
               "file inode has zero offset and non-zero size")
    ELSE IF i.size = 0 /\ i.offset * 4 # 0
    THEN Fatal(FSCK_UNCORRECTED,
               "file inode has zero size and non-zero offset")
    ELSE Pass

\* Lines 552-582: do_file(); do_uncompress() runs in UncompressStep.
DoFile ==
    /\ Dispatching({"reg"})
    /\ LET offset == call.offset * 4
           tested == FileInodeTest(call)
       IN IF tested.fatal
          THEN /\ die(tested.code, tested.text)
               /\ UNCHANGED << start_data, call, unc, sink >>
          ELSE /\ start_data' = IF offset # 0 /\ offset < start_data
                                THEN offset ELSE start_data
               /\ IF env.opt_extract /\ HostFails("open")
                  THEN /\ die(FSCK_ERROR, "open failed")
                       /\ UNCHANGED << call, unc, sink >>
                  ELSE /\ sink' = IF env.opt_extract
                                  THEN Append(sink,
                                              SinkCall("open", offset, <<>>))
                                  ELSE sink
                       /\ IF call.size # 0
                          THEN /\ unc' = [active |-> TRUE, offset |-> offset,
                                          size |-> call.size,
                                          curr |-> FirstBlock(offset,
                                                              call.size),
                                          k |-> 0, first |-> offset,
                                          total |-> call.size]
                               /\ UNCHANGED << pc, status, msg, call >>
                          ELSE IF env.opt_extract /\ HostFails("chown")
                          THEN /\ die(FSCK_ERROR, "lchown failed")
                               /\ UNCHANGED << call, unc >>
                          ELSE /\ call' = NoCall
                               /\ UNCHANGED << pc, status, msg, unc >>
    /\ UNCHANGED << file, env, warned, stages, start, length, super,
                    start_dir, end_dir, end_data, stack, img, ptrs, outbuffer,
                    nodes >>

\* Lines 591-596: the tests do_symlink() makes of its inode.
SymlinkInodeTest(i) ==
    IF i.offset * 4 = 0
    THEN Fatal(FSCK_UNCORRECTED, "symbolic link has zero offset")
    ELSE IF i.size = 0
    THEN Fatal(FSCK_UNCORRECTED, "symbolic link has zero size")
    ELSE Pass

\* Line 606: the test of the length of the link target.
SymlinkSizeOk(size, isize) == size = isize

\* Lines 106, 609: whether outbuffer[index] is a byte of the buffer.
StoreInBounds(index) == index < 2 * POLYFS_BLOCK_SIZE

\* Lines 584-626: do_symlink().  The pointer read of line 588 is used only
\* after the two tests of the inode.  The store of line 609 past the end of
\* outbuffer is undefined: the byte falls into whatever the build has put
\* behind the buffer and the run goes on, or the process is killed.
DoSymlink(deltas, outs) ==
    /\ Dispatching({"lnk"})
    /\ LET offset == call.offset * 4
           curr == offset + 4
           tested == SymlinkInodeTest(call)
       IN IF tested.fatal
          THEN /\ die(tested.code, tested.text)
               /\ UNCHANGED << start_data, end_data, call, ptrs, outbuffer,
                               sink >>
          ELSE \E next \in PointersAt(offset, curr, deltas) :
               \E lib \in LibOutcomes(outs) :
                  LET res == uncompress_block(curr, next - curr, lib,
                                              outbuffer)
                      size == ToULong(res.out)
                      target == Take(res.buf, size)
                  IN /\ ptrs' = IF offset \in DOMAIN ptrs THEN ptrs
                                ELSE ptrs @@ (offset :> next)
                     /\ start_data' = IF offset < start_data
                                      THEN offset ELSE start_data
                     /\ end_data' = IF next > end_data
                                    THEN next ELSE end_data
                     /\ IF res.fatal
                        THEN /\ die(FSCK_UNCORRECTED, res.text)
                             /\ outbuffer' = res.buf
                             /\ UNCHANGED << call, sink >>
                        ELSE IF ~SymlinkSizeOk(size, call.size)
                        THEN /\ die(FSCK_UNCORRECTED, "size error in symlink")
                             /\ outbuffer' = res.buf
                             /\ UNCHANGED << call, sink >>
                        ELSE \/ /\ outbuffer' =
                                       Overwrite(res.buf, size, <<ZeroRun(1)>>)
                                /\ sink' = SinkAfter("symlink", offset, target)
                                /\ IF HostTest("symlink").fatal
                                   THEN /\ die(FSCK_ERROR,
                                               HostTest("symlink").text)
                                        /\ UNCHANGED call
                                   ELSE /\ call' = NoCall
                                        /\ UNCHANGED << pc, status, msg >>
                             \/ /\ ~StoreInBounds(size)
                                /\ outbuffer' = res.buf
                                /\ pc' = "exited"
                                /\ msg' = "killed by a signal"
                                /\ UNCHANGED << status, call, sink >>
    /\ UNCHANGED << file, env, warned, stages, start, length, super,
                    start_dir, end_dir, stack, unc, img, nodes >>

\* Lines 633-659: the tests do_special_inode() makes of its inode.
SpecialInodeTest(i) ==
    IF i.offset # 0
    THEN Fatal(FSCK_UNCORRECTED, "special file has non-zero offset")
    ELSE IF i.mode \in {"chr", "blk"} THEN Pass
    ELSE IF i.mode = "fifo"
    THEN IF i.size # 0
         THEN Fatal(FSCK_UNCORRECTED, "fifo has non-zero size")
         ELSE Pass
    ELSE IF i.mode = "sock"
    THEN IF i.size # 0
         THEN Fatal(FSCK_UNCORRECTED, "socket has non-zero size")
         ELSE Pass
    ELSE Fatal(FSCK_UNCORRECTED, "bogus mode")

\* Lines 628-671: do_special_inode(), for every mode that is neither a
\* directory, a regular file nor a symbolic link.
DoSpecialInode ==
    /\ Dispatching({"chr", "blk", "fifo", "sock", "bogus"})
    /\ LET tested == SpecialInodeTest(call)
       IN IF tested.fatal
          THEN /\ die(tested.code, tested.text)
               /\ UNCHANGED << call, sink >>
          ELSE /\ sink' = SinkAfter("mknod", call.size, <<>>)
               /\ IF HostTest("mknod").fatal
                  THEN /\ die(FSCK_ERROR, HostTest("mknod").text)
                       /\ UNCHANGED call
                  ELSE /\ call' = NoCall
                       /\ UNCHANGED << pc, status, msg >>
    /\ UNCHANGED << file, env, warned, stages, start, length, super,
                    start_dir, end_dir, start_data, end_data, stack, unc, img,
                    ptrs, outbuffer, nodes >>

(***************************************************************************)
(* test_fs()                                                               *)
(***************************************************************************)
\* Lines 698-700: the test of the root offset.
RootOffsetOk(flags, root_offset, st) ==
    \/ POLYFS_FLAG_SHIFTED_ROOT_OFFSET \in flags
    \/ root_offset = SuperSize
    \/ root_offset = PAD_SIZE + SuperSize

\* Lines 694-709: test_fs() up to its call of expand_fs().
TestFsBegin ==
    /\ pc = "test_fs"
    /\ stages' = Append(stages, "test_fs")
    /\ LET root == super.root
           root_offset == root.offset * 4
       IN IF env.ioerr = "malloc_root"
          THEN /\ die(FSCK_ERROR, "malloc failed")
               /\ UNCHANGED << call, nodes >>
          ELSE IF root.mode # "dir"
          THEN /\ die(FSCK_UNCORRECTED, "root inode is not directory")
               /\ UNCHANGED << call, nodes >>
          ELSE IF ~RootOffsetOk(super.flags, root_offset, start)
          THEN /\ die(FSCK_UNCORRECTED, "bad root offset")
               /\ UNCHANGED << call, nodes >>
          ELSE /\ pc' = "walk"
               /\ call' = root
               /\ nodes' = nodes + 1
               /\ UNCHANGED << status, msg >>
    /\ UNCHANGED << file, env, warned, start, length, super, start_dir,
                    end_dir, start_data, end_data, stack, unc, img, ptrs,
                    outbuffer, sink >>

\* Lines 711-723: the tests of the layout counters after the walk.
LayoutTests(sb, st) ==
    IF start_data # ULONG_MAX /\ start_data < SuperSize + st
    THEN Fatal(FSCK_UNCORRECTED,
               "directory data start < sizeof(struct polyfs_super) + start")
    ELSE IF start_data # ULONG_MAX /\ end_dir # start_data
    THEN Fatal(FSCK_UNCORRECTED, "directory data end != file data start")
    ELSE IF POLYFS_FLAG_FSID_VERSION_1 \in sb.flags /\ end_data > sb.size
    THEN Fatal(FSCK_UNCORRECTED, "invalid file data offset")
    ELSE Pass

\* Lines 710-725: test_fs() after expand_fs() has returned.
TestFsEnd ==
    /\ pc = "test_fs_end"
    /\ LET tested == LayoutTests(super, start)
       IN IF tested.fatal
          THEN die(tested.code, tested.text)
          ELSE /\ pc' = "report"
               /\ UNCHANGED << status, msg >>
    /\ UNCHANGED << file, env, warned, stages, start, length, super >>
    /\ UNCHANGED walkVars

(***************************************************************************)
(* main(), lines 766-770: report and exit(FSCK_OK).                        *)
(***************************************************************************)
Report ==
    /\ pc = "report"
    /\ stages' = Append(stages, "report")
    /\ pc' = "exited"
    /\ status' = << FSCK_OK >>
    /\ msg' = "OK"
    /\ UNCHANGED << file, env, warned, start, length, super >>
    /\ UNCHANGED walkVars

(***************************************************************************)
(* The inputs: image files, environments, and what the walker may read.    *)
(***************************************************************************)
\* The checksum a well-made image of `fsize` bytes stores: that of its bytes
\* [st, n), the checksum field read as zero.
ImageCrc(fsize, st, n) ==
    Canon(Take(Drop(<<Run(fsize, "img", 0)>>, st), CrcFieldOffset)
          \o <<ZeroRun(CrcFieldSize)>>
          \o Take(Drop(<<Run(fsize, "img", 0)>>,
                       st + CrcFieldOffset + CrcFieldSize),
                  n - (st + CrcFieldOffset + CrcFieldSize)))

BadCrc == << Run(1, "bad", 0) >>

Env(ioerr, mmap, extract, hostfail) ==
    [ioerr |-> ioerr, mmap |-> mmap, opt_extract |-> extract,
     hostfail |-> hostfail]

File(kind, size, sb0, sb512) ==
    [kind |-> kind, size |-> size, sb0 |-> sb0, sb512 |-> sb512]

Root(offset, size) == Inode("dir", offset, size, 0, 0)

\* A regular file of `fsize` bytes holding the superblock sb at `st`.
ImageAt(st, fsize, sb) ==
    IF st = 0 THEN File("reg", fsize, sb, NoSuper)
    ELSE File("reg", fsize, NoSuper, sb)

\* A superblock that passes test_super() and test_crc() in a file of
\* `size` bytes.
GoodSuper(st, size, flags, root) ==
    Superblock(TRUE, size, flags \cup {POLYFS_FLAG_FSID_VERSION_1},
               ImageCrc(size, st, size), 1, root)

GoodImage(st, flags, root) ==
    ImageAt(st, POLYFS_BLOCK_SIZE,
            GoodSuper(st, POLYFS_BLOCK_SIZE, flags, root))

\* The length of a child record of the model: the inode and a 4-byte name.
RecordSize == InodeSize + 4

\* The offset fields (in 4-byte units) of the payloads the model's images
\* use: behind a root directory of two children, the superblock at 0 or 512.
RootAt0 == SuperSize \div 4
RootAt512 == (PAD_SIZE + SuperSize) \div 4
DataAt0 == (SuperSize + 2 * RecordSize) \div 4
DataAt512 == (PAD_SIZE + SuperSize + 2 * RecordSize) \div 4
\* The same behind a root directory of one child, the superblock at 0.
DataBehindOne == (SuperSize + RecordSize) \div 4
ModeSet == {"dir", "reg", "lnk", "chr", "blk", "fifo", "sock", "bogus"}

\* The images of the walk: good superblocks, the root directory varied.
WalkFiles ==
    { GoodImage(0, {}, Root(RootAt0, n * RecordSize)) : n \in 0..2 }
    \cup { GoodImage(PAD_SIZE, {}, Root(RootAt512, 2 * RecordSize)),
           GoodImage(PAD_SIZE, {}, Root(RootAt0, RecordSize)),
           GoodImage(0, {}, Root(RootAt512, RecordSize)),
           GoodImage(0, {}, Root(DataAt0, RecordSize)),
           GoodImage(0, {}, Root(0, 0)),
           GoodImage(0, {}, Inode("reg", RootAt0, RecordSize, 0, 0)),
           GoodImage(0, {POLYFS_FLAG_SHIFTED_ROOT_OFFSET},
                     Root(DataAt0, RecordSize)),
           GoodImage(0, {POLYFS_FLAG_ZLIB_COMPRESSION},
                     Root(RootAt0, 2 * RecordSize)),
           GoodImage(0, {POLYFS_FLAG_LZO_COMPRESSION},
                     Root(RootAt0, 2 * RecordSize)) }

WalkEnvs ==
    { Env("none", "file", x, "none") : x \in BOOLEAN }
    \cup { Env("none", "file", TRUE, h) :
             h \in {"mkdir", "open", "write", "symlink", "mknod", "chown"} }
    \cup { Env(a, "file", FALSE, "none") :
             a \in {"malloc_root", "malloc_child", "malloc_path",
                    "calloc_lzo"} }

\* The child records of the walk: every mode with every combination of a
\* zero or non-zero offset and size, and some names.
WalkInodes ==
    { Inode(m, os[1], os[2], 1, 3) :
        m \in ModeSet,
        os \in { <<0, 0>>, <<0, RecordSize>>, <<DataAt0, 0>>,
                 <<DataAt0, RecordSize>>, <<DataAt512, RecordSize>> } }
    \cup { Inode("dir", 1, 0, 1, 3),
           Inode("chr", 0, 0, 0, 0),
           Inode("chr", 0, 0, 2, 4),
           Inode("chr", 0, 0, 2, 5) }

\* The block pointers of the walk, as distances from the start of the block.
WalkDeltas == { 0, RecordSize, 0 - 8, POLYFS_BLOCK_SIZE + 1 }

\* The lengths the decompression library yields in the walk (-1: an error).
WalkOuts == { 0 - 1, 0, RecordSize }

Init(files, envs) ==
    /\ file \in files
    /\ env \in envs
    /\ pc = "test_super"
    /\ status = <<>>
    /\ msg = ""
    /\ warned = FALSE
    /\ stages = <<>>
    /\ start = 0
    /\ length = 0
    /\ super = NoSuper
    /\ start_dir = ULONG_MAX
    /\ end_dir = 0
    /\ start_data = ULONG_MAX
    /\ end_data = 0
    /\ stack = <<>>
    /\ call = NoCall
    /\ unc = NoUnc
    /\ img = <<>>
    /\ ptrs = <<>>
    /\ outbuffer = << ZeroRun(2 * POLYFS_BLOCK_SIZE) >>
    /\ sink = <<>>
    /\ nodes = 0

InitWalk == Init(WalkFiles, WalkEnvs)

(***************************************************************************)
(* The inputs of the superblock and checksum stages: files of several      *)
(* lengths and kinds, superblocks of every shape at 0 and at 512, every    *)
(* failing system call; the tree is a root directory of one child.         *)
(***************************************************************************)
SuperFlagSets ==
    { {}, {POLYFS_FLAG_FSID_VERSION_1},
      {POLYFS_FLAG_FSID_VERSION_1, "FUTURE"}, {"FUTURE"} }

\* The checksums the model stores: that of the bytes [st, size), that of
\* the size bytes from st on (as far as the file has them), a wrong one.
StoredCrc(kind, fsize, st, size) ==
    IF kind = "to_size" THEN ImageCrc(fsize, st, size)
    ELSE IF kind = "from_start" THEN ImageCrc(fsize, st, st + size)
    ELSE BadCrc

\* The superblocks a file of `fsize` bytes may hold at `st`.
SupersAt(fsize, st) ==
    { Superblock(TRUE, size, flags, StoredCrc(kind, fsize, st, size), files,
                 Root(IF st = 0 THEN RootAt0 ELSE RootAt512, RecordSize)) :
        size \in {2048, 4096, 4608, 8192},
        flags \in SuperFlagSets,
        files \in {0, 1},
        kind \in {"to_size", "from_start", "bad"} }

SuperFileSizes == {40, 100, 4096, 4608, 8192}

SuperFiles ==
    UNION { { File("reg", n, sb, NoSuper) : sb \in SupersAt(n, 0) }
            \cup { File("reg", n, NoSuper, sb) : sb \in SupersAt(n, PAD_SIZE) }
            \cup { File("reg", n, GoodSuper(0, 4096, {}, Root(RootAt0, 0)),
                         GoodSuper(PAD_SIZE, 4096, {}, Root(RootAt512, 0))),
                   File("reg", n, NoSuper, NoSuper),
                   File("blk", n + 100,
                        GoodSuper(0, n, {}, Root(RootAt0, RecordSize)),
                        NoSuper),
                   File("other", n, NoSuper, NoSuper) } :
            n \in SuperFileSizes }

SuperEnvs ==
    { Env(io, "file", FALSE, "none") :
        io \in {"none", "stat", "open", "ioctl", "read"} }
    \cup { Env("none", m, FALSE, "none") : m \in {"anon", "none"} }
    \cup { Env("malloc_crc", "none", FALSE, "none") }

SuperInodes ==
    { Inode("chr", 0, 0, 1, 3),
      Inode("reg", DataBehindOne, RecordSize, 1, 3),
      Inode("lnk", DataBehindOne, RecordSize, 1, 3) }

SuperDeltas == { RecordSize }
SuperOuts == { RecordSize }

InitSuper == Init(SuperFiles, SuperEnvs)

NextSuper ==
    \/ TestSuper
    \/ TestCrc
    \/ TestFsBegin
    \/ DoDirectory
    \/ DirRead(SuperInodes)
    \/ ChildReturn
    \/ DirReturn
    \/ DoFile
    \/ UncompressStep(SuperDeltas, SuperOuts)
    \/ DoSymlink(SuperDeltas, SuperOuts)
    \/ DoSpecialInode
    \/ TestFsEnd
    \/ Report

SpecSuper == InitSuper /\ [][NextSuper]_vars

(***************************************************************************)
(* The inputs of file expansion: a root directory of one child, a regular  *)
(* file or a symbolic link, in each compression mode; block pointers and   *)
(* decompressed lengths around the block size.                             *)
(***************************************************************************)
DataImageSize == (MaxBlocks + 2) * POLYFS_BLOCK_SIZE

DataFiles ==
    { ImageAt(0, DataImageSize,
              GoodSuper(0, DataImageSize, flags, Root(RootAt0, RecordSize))) :
        flags \in { {}, {POLYFS_FLAG_ZLIB_COMPRESSION},
                    {POLYFS_FLAG_LZO_COMPRESSION} } }

DataEnvs ==
    { Env("none", "file", FALSE, "none"), Env("none", "file", TRUE, "none"),
      Env("none", "file", TRUE, "write") }

DataInodes ==
    { Inode("reg", DataBehindOne, size, 1, 3) :
        size \in { 1, POLYFS_BLOCK_SIZE, POLYFS_BLOCK_SIZE + 1,
                   MaxBlocks * POLYFS_BLOCK_SIZE } }
    \cup { Inode("lnk", DataBehindOne, size, 1, 3) :
             size \in { 1, POLYFS_BLOCK_SIZE, 2 * POLYFS_BLOCK_SIZE } }
    \cup { Inode("reg", 0, 0, 1, 3), Inode("chr", 0, 0, 1, 3) }

DataDeltas == { 0, 1, POLYFS_BLOCK_SIZE, POLYFS_BLOCK_SIZE + 1, 0 - 4 }
DataOuts == { 0 - 1, 1, POLYFS_BLOCK_SIZE, 2 * POLYFS_BLOCK_SIZE }

InitData == Init(DataFiles, DataEnvs)

NextData ==
    \/ TestSuper
    \/ TestCrc
    \/ TestFsBegin
    \/ DoDirectory
    \/ DirRead(DataInodes)
    \/ ChildReturn
    \/ DirReturn
    \/ DoFile
    \/ UncompressStep(DataDeltas, DataOuts)
    \/ DoSymlink(DataDeltas, DataOuts)
    \/ DoSpecialInode
    \/ TestFsEnd
    \/ Report

SpecData == InitData /\ [][NextData]_vars

Next ==
    \/ TestSuper
    \/ TestCrc
    \/ TestFsBegin
    \/ DoDirectory
    \/ DirRead(WalkInodes)
    \/ ChildReturn
    \/ DirReturn
    \/ DoFile
    \/ UncompressStep(WalkDeltas, WalkOuts)
    \/ DoSymlink(WalkDeltas, WalkOuts)
    \/ DoSpecialInode
    \/ TestFsEnd
    \/ Report

Spec == InitWalk /\ [][Next]_vars

(***************************************************************************)
(* The claims.                                                             *)
(***************************************************************************)
Exited == pc = "exited"
ExitedWith(code) == Exited /\ status = << code >>

\* The stages of main(), in the order of lines 760-770.
StageOrder == << "test_super", "test_crc", "test_fs", "report" >>

\* The walk has completed without a fatal exit.
WalkCompletedOk == pc = "report" \/ ExitedWith(FSCK_OK)

\* C1: whenever the tree walk completes without a fatal exit, the layout
\* counters satisfy sizeof(super) + start <= start_dir <= end_dir <=
\* start_data <= end_data <= super.size, whatever the directory tree.
C1_LayoutChain ==
    WalkCompletedOk =>
        /\ SuperSize + start <= start_dir
        /\ start_dir <= end_dir
        /\ end_dir <= start_data
        /\ start_data <= end_data
        /\ end_data <= super.size

\* test_crc() has run; it ended the run; it let the run go on.
CrcStageRan == Len(stages) >= 2
CrcStageFailed == Len(stages) = 2 /\ Exited
CrcStagePassed == CrcStageRan /\ ~CrcStageFailed

\* The checksum of exactly the image bytes [st, n), the checksum field of
\* the superblock at st read as zero; no checksum equals it when the file
\* has no such bytes.
RangeCrc(st, n) ==
    IF n > file.size THEN << Run(1, "no such bytes", 0) >>
    ELSE ImageCrc(file.size, st, n)

\* What C2 says of the checksum stage, the checksum being taken over the
\* bytes [start, n): the stage passes exactly when the stored checksum is
\* that one, and a mismatch ends the run with UNCORRECTED.  (A failed
\* malloc() ends the stage without a comparison.)
CrcStageChecks(n) ==
    (CrcStageRan /\ ~(CrcStageFailed /\ msg = "malloc failed")) =>
        /\ CrcStagePassed <=> (super.crc = RangeCrc(start, n))
        /\ CrcStageFailed =>
              (status = << FSCK_UNCORRECTED >> /\ msg = "crc error")

\* C2, as claimed: the checksum stage passes if and only if the stored
\* checksum is that of the super.size bytes [start, start + super.size),
\* the checksum field taken as zero, for start = 0 and for start = 512; a
\* mismatch ends the run with UNCORRECTED.
C2_CrcOverSizeBytesFromStart == CrcStageChecks(start + super.size)

\* C2, amended: the checksum stage passes if and only if the stored
\* checksum is that of the bytes [start, super.size), the super.size - start
\* bytes from the superblock to the declared end of the image, the checksum
\* field taken as zero; a mismatch ends the run with UNCORRECTED.
C2_CrcUpToSize == CrcStageChecks(super.size)

\* C2's case: an image whose superblock lies at 512, followed by at least
\* super.size bytes, has passed the checksum stage.
C2_Witness ==
    /\ CrcStagePassed
    /\ start = PAD_SIZE
    /\ file.size >= start + super.size

\* C3: a file shorter than a superblock ends the run UNCORRECTED; otherwise
\* start = 0 when the magic is at offset 0; otherwise start = 512 when the
\* file has 512 + sizeof(super) bytes and the magic is at offset 512;
\* otherwise the run ends UNCORRECTED, "superblock magic not found".  The
\* superblock later stages use is the one read at the chosen start.
C3_SuperblockLocation ==
    (Len(stages) >= 1
     /\ env.ioerr \notin {"stat", "open"}
     /\ ~(file.kind = "blk" /\ env.ioerr = "ioctl")
     /\ file.kind \in {"reg", "blk"}) =>
        IF FileLength(file) < SuperSize
        THEN /\ ExitedWith(FSCK_UNCORRECTED)
             /\ msg = "filesystem smaller than a polyfs superblock"
        ELSE IF env.ioerr = "read" THEN ExitedWith(FSCK_ERROR)
        ELSE IF file.sb0.magic
        THEN /\ start = 0
             /\ super = file.sb0
             /\ msg # "superblock magic not found"
        ELSE IF FileLength(file) >= PAD_SIZE + SuperSize /\ file.sb512.magic
        THEN /\ start = PAD_SIZE
             /\ super = file.sb512
             /\ msg # "superblock magic not found"
        ELSE /\ ExitedWith(FSCK_UNCORRECTED)
             /\ msg = "superblock magic not found"
             /\ Len(stages) = 1

\* C3's case: the superblock was found at 512 and the run has gone on.
C3_Witness ==
    /\ start = PAD_SIZE
    /\ super = file.sb512
    /\ ~file.sb0.magic
    /\ CrcStageRan

\* test_super() ended the run with this status and diagnostic.
SuperDied(code, text) ==
    /\ ExitedWith(code)
    /\ msg = text
    /\ Len(stages) = 1

\* C4: once the magic is found, test_super() ends as the first failing
\* check of this order says: flags outside the supported ones, ERROR;
\* size < 4096, UNCORRECTED; no FSID_VERSION_1, UNCORRECTED; no files,
\* UNCORRECTED; file shorter than super.size, UNCORRECTED.  A file longer
\* than super.size only draws the warning, and decoding succeeds.
C4_SuperblockTestOrder ==
    (Len(stages) >= 1 /\ super.magic) =>
        IF super.flags \ POLYFS_SUPPORTED_FLAGS # {}
        THEN SuperDied(FSCK_ERROR, "unsupported filesystem features")
        ELSE IF super.size < 4096
        THEN SuperDied(FSCK_UNCORRECTED, "superblock size too small")
        ELSE IF POLYFS_FLAG_FSID_VERSION_1 \notin super.flags
        THEN SuperDied(FSCK_UNCORRECTED, "invalid filesystem version")
        ELSE IF super.files = 0
        THEN SuperDied(FSCK_UNCORRECTED, "zero file count")
        ELSE IF length < super.size
        THEN SuperDied(FSCK_UNCORRECTED, "file length too short")
        ELSE /\ (Exited => Len(stages) >= 2)
             /\ warned <=> (length > super.size)

\* C4's case: a file longer than its image has drawn the warning and the
\* run has gone on to the checksum.
C4_Witness ==
    /\ warned
    /\ length > super.size
    /\ pc = "test_crc"

\* The diagnostics of failed system and library calls.
OperationalFailures ==
    { "stat failed", "open failed", "ioctl failed",
      "not a block device or file", "read failed", "malloc failed",
      "memory allocation failed", "write failed", "mkdir failed",
      "symlink failed", "mknod failed", "lchown failed" }

\* The stages entered are the first ones of main()'s order.
StagesInOrder ==
    /\ Len(stages) <= Len(StageOrder)
    /\ stages = SubSeq(StageOrder, 1, Len(stages))
    /\ (pc \in {"walk", "test_fs_end", "report"} \/ nodes > 0) =>
           Len(stages) >= 3

\* A fatal condition ends the run at once: the process has exited and takes
\* no further step, and it did not go on to report.
FailFast ==
    /\ status # <<>> => (Exited /\ ~ENABLED Next)
    /\ (Exited /\ status # << FSCK_OK >>) =>
           (Len(stages) <= 3 /\ status \in { << FSCK_UNCORRECTED >>,
                                             << FSCK_ERROR >> })

\* OK is the exit code of a run whose three stages all completed.
OkOnlyWhenComplete ==
    ExitedWith(FSCK_OK) =>
        (stages = StageOrder /\ stack = <<>> /\ call = NoCall
         /\ ~unc.active /\ msg = "OK")

\* C5: main() runs test_super, test_crc, test_fs and the report in this
\* order and is fail-fast: the first fatal condition ends the run with its
\* exit code, UNCORRECTED (4) for an anomaly of the image and ERROR (8) for
\* a failed system call or allocation (and for unsupported features); no
\* later stage and no further inode is processed; OK (0) is reported only
\* when all three stages completed.
C5_FailFastDriver ==
    /\ StagesInOrder
    /\ FailFast
    /\ OkOnlyWhenComplete
    /\ (Exited /\ msg \in OperationalFailures) => status = << FSCK_ERROR >>
    /\ (Exited /\ status = << FSCK_ERROR >>) =>
           msg \in OperationalFailures \cup {"unsupported filesystem features"}

\* The inode dispatched is rejected as an anomaly of the image.
Rejected == pc' = "exited" /\ status' = << FSCK_UNCORRECTED >>

\* C6, as claimed: a directory with offset = 0 and size = 0 is accepted as
\* empty; one with offset = 0 and size # 0 is rejected UNCORRECTED; one with
\* size = 0 and a non-zero offset is rejected UNCORRECTED.
C6_DirectoryAcceptance ==
    [][(Dispatching({"dir"}) /\ env.ioerr # "malloc_path") =>
          /\ (call.offset = 0 /\ call.size = 0) => ~Rejected
          /\ (call.offset = 0 /\ call.size # 0) => Rejected
          /\ (call.size = 0 /\ call.offset # 0) => Rejected]_vars

\* C6, amended: a directory is rejected UNCORRECTED exactly when its offset
\* is 0 and its size is not.  A directory of size 0 is accepted as empty
\* whatever its offset; a non-zero offset still lowers start_dir.
C6_DirectoryAcceptanceAmended ==
    [][(Dispatching({"dir"}) /\ env.ioerr # "malloc_path") =>
          /\ Rejected <=> (call.offset = 0 /\ call.size # 0)
          /\ Rejected =>
                msg' = "directory inode has zero offset and non-zero size"
          /\ (~Rejected /\ call.offset # 0) =>
                start_dir' = Min(start_dir, call.offset * 4)
          /\ (~Rejected /\ call.offset = 0) => start_dir' = start_dir
          /\ (~Rejected /\ pc' # "exited") =>
                /\ stack' = Append(stack, Frame(call.offset * 4, call.size,
                                                0, "loop"))
                /\ call' = NoCall]_vars

\* C6's case: the root directory, of size 0 at the offset behind the
\* superblock, has been accepted; no child was read.
C6_Witness ==
    /\ nodes = 1
    /\ super.root.size = 0
    /\ super.root.offset # 0
    /\ stack = << Frame(super.root.offset * 4, 0, 0, "loop") >>
    /\ start_dir = super.root.offset * 4
    /\ ~Exited

\* C7: without SHIFTED_ROOT_OFFSET the walk is started only if the root
\* inode is a directory whose payload offset equals sizeof(super) + start,
\* start being the one test_super() chose; any other root offset ends the
\* run UNCORRECTED.  With the flag the offset is not constrained.
C7_RootOffsetFollowsStart ==
    /\ (nodes >= 1 /\ POLYFS_FLAG_SHIFTED_ROOT_OFFSET \notin super.flags) =>
          /\ super.root.mode = "dir"
          /\ super.root.offset * 4 = SuperSize + start
    /\ (Exited /\ msg = "bad root offset") =>
          /\ status = << FSCK_UNCORRECTED >>
          /\ POLYFS_FLAG_SHIFTED_ROOT_OFFSET \notin super.flags
          /\ nodes = 0

\* The number of blocks of a file of `size` bytes, and what block k of it
\* must yield.
NBlocks(size) == (size + POLYFS_BLOCK_SIZE - 1) \div POLYFS_BLOCK_SIZE
BlockYield(size, k) == Min(POLYFS_BLOCK_SIZE, size - k * POLYFS_BLOCK_SIZE)

\* The compressed range of block k of the file at `first`: from the end of
\* block k - 1, or from behind the pointers, to pointer k.
BlockStartOf(first, size, k) ==
    IF k = 0 THEN first + 4 * NBlocks(size) ELSE ptrs[first + 4 * (k - 1)]
BlockEndOf(first, k) == ptrs[first + 4 * k]

\* What the sink was given to write into the file at `first`.
WritesOf(first) ==
    SelectSeq(sink, LAMBDA c : c.op = "write" /\ c.at = first)

\* The name of the compression the image uses.
CompressionOf(flags) ==
    IF POLYFS_FLAG_LZO_COMPRESSION \in flags THEN "lzo"
    ELSE IF POLYFS_FLAG_ZLIB_COMPRESSION \in flags THEN "zlib"
    ELSE "img"

\* Blocks 0 .. n - 1 of the file at `first` were accepted: each of their
\* pointers was read, and what the sink got for each is of the length the
\* block must yield, zeros for a hole and the decompressor's output for
\* this very block otherwise.
BlocksAccepted(first, size, n) ==
    /\ \A k \in 0 .. n - 1 : first + 4 * k \in DOMAIN ptrs
    /\ env.opt_extract =>
          /\ Len(WritesOf(first)) = n
          /\ \A k \in 0 .. n - 1 :
                LET w == WritesOf(first)[k + 1].data
                    from == BlockStartOf(first, size, k)
                IN /\ RunsLen(w) = BlockYield(size, k)
                   /\ BlockEndOf(first, k) = from =>
                         w = << ZeroRun(BlockYield(size, k)) >>
                   /\ (BlockEndOf(first, k) # from
                       /\ CompressionOf(super.flags) # "img") =>
                         w = << Run(BlockYield(size, k),
                                    CompressionOf(super.flags), from) >>

\* The regular file the root directory holds has been expanded.
FileExpanded ==
    /\ SuperSize \in DOMAIN img
    /\ img[SuperSize].mode = "reg"
    /\ img[SuperSize].size > 0
    /\ nodes = 2
    /\ call = NoCall

\* C8: the expansion of a regular file of size > 0 reads exactly
\* nblocks = ceil(size / 4096) pointers, block k being the bytes from the
\* end of block k - 1 (block 0: from offset + 4 * nblocks) to pointer k;
\* every block but the last yields 4096 bytes and the last one
\* size - k * 4096, or the run ends UNCORRECTED; a hole yields
\* min(4096, remaining) zero bytes; at the end the sink has been given
\* exactly size bytes, in the order of the blocks.
C8_FileExpansion ==
    /\ (unc.active /\ ~Exited) =>
          /\ unc.k < NBlocks(unc.total)
          /\ unc.offset = unc.first + 4 * unc.k
          /\ unc.curr = BlockStartOf(unc.first, unc.total, unc.k)
          /\ unc.size = unc.total - unc.k * POLYFS_BLOCK_SIZE
          /\ DOMAIN ptrs = { unc.first + 4 * k : k \in 0 .. unc.k - 1 }
          /\ BlocksAccepted(unc.first, unc.total, unc.k)
    /\ (Exited /\ msg \in {"non-block bytes", "non-size bytes"}) =>
          /\ status = << FSCK_UNCORRECTED >>
          /\ unc.active
          /\ (msg = "non-block bytes") <=> (unc.size > POLYFS_BLOCK_SIZE
                                            \/ unc.size = POLYFS_BLOCK_SIZE)
          /\ CompressionOf(super.flags) = "img" =>
                ToULong(BlockEndOf(unc.first, unc.k) - unc.curr)
                    # BlockYield(unc.total, unc.k)
    /\ FileExpanded =>
          LET first == img[SuperSize].offset * 4
              size == img[SuperSize].size
          IN /\ ~unc.active
             /\ DOMAIN ptrs = { first + 4 * k : k \in 0 .. NBlocks(size) - 1 }
             /\ BlocksAccepted(first, size, NBlocks(size))
             /\ env.opt_extract =>
                   RunsLen([k \in 1 .. Len(WritesOf(first)) |->
                              Run(RunsLen(WritesOf(first)[k].data), "sum", 0)])
                       = size

\* C8's case: a compressed file of MaxBlocks full blocks, its second block
\* a hole, has been extracted.
C8_Witness ==
    /\ FileExpanded
    /\ env.opt_extract
    /\ CompressionOf(super.flags) = "zlib"
    /\ img[SuperSize].size = MaxBlocks * POLYFS_BLOCK_SIZE
    /\ Len(WritesOf(img[SuperSize].offset * 4)) = MaxBlocks
    /\ BlockEndOf(img[SuperSize].offset * 4, 1)
           = BlockEndOf(img[SuperSize].offset * 4, 0)
    /\ BlockEndOf(img[SuperSize].offset * 4, 0)
           # BlockStartOf(img[SuperSize].offset * 4, img[SuperSize].size, 0)

\* C9: in the uncompressed mode uncompress_block() copies the declared_len
\* <= 4096 bytes of the block into the scratch buffer and returns
\* declared_len, so that what the sink is given to write, and the target of
\* a symbolic link, are the bytes of the block in the image; a longer block
\* is rejected UNCORRECTED.
C9_StoredBlockBytes ==
    /\ (Exited /\ msg = "data block too large") =>
          status = << FSCK_UNCORRECTED >>
    /\ (CompressionOf(super.flags) = "img" /\ SuperSize \in DOMAIN img) =>
          LET first == img[SuperSize].offset * 4
              size == img[SuperSize].size
          IN /\ \A k \in 1 .. Len(WritesOf(first)) :
                   LET from == BlockStartOf(first, size, k - 1)
                       to == BlockEndOf(first, k - 1)
                   IN to # from =>
                         WritesOf(first)[k].data
                             = << Run(to - from, "img", from) >>
             /\ \A j \in 1 .. Len(sink) :
                   sink[j].op = "symlink" =>
                      sink[j].data
                          = << Run(ptrs[first] - (first + 4), "img",
                                   first + 4) >>

\* The length the single block of the symbolic link dispatched has yielded
\* is the size of its inode.  In the uncompressed mode the length is that of
\* the block; otherwise it is seen in what the decompressor left in the
\* scratch buffer.
LinkLengthIsSize ==
    LET offset == call.offset * 4
        curr == offset + 4
    IN IF CompressionOf(super.flags) = "img"
       THEN ToULong(ptrs'[offset] - curr) = call.size
       ELSE outbuffer'[1] = Run(call.size, CompressionOf(super.flags), curr)

\* The scratch buffer shows what the decompressor yields for the link: it
\* does not already hold, from an earlier link at the same place, what a
\* block of the right length would leave.
LinkLengthSeen ==
    \/ CompressionOf(super.flags) = "img"
    \/ outbuffer[1] # Run(call.size, CompressionOf(super.flags),
                          call.offset * 4 + 4)

DecompressorFailures ==
    { "data block too large", "decompression error",
      "memory allocation failed", "LZO overlap decompression failed (1)",
      "LZO overlap decompression failed (2)" }

\* C10: an inode that is not a directory is rejected UNCORRECTED exactly
\* when it breaks the rule of its type: a regular file iff (offset = 0)
\* differs from (size = 0); a symbolic link iff offset = 0 or size = 0 or
\* its block decompresses to another length than size; a character or block
\* device iff offset # 0; a FIFO or socket iff offset # 0 or size # 0;
\* anything else always ("bogus mode").
C10_InodeRules ==
    [][Dispatching(ModeSet \ {"dir"}) =>
          CASE call.mode = "reg" ->
                  Rejected <=> ((call.offset = 0) # (call.size = 0))
            [] call.mode = "lnk" ->
                  IF call.offset = 0 \/ call.size = 0 THEN Rejected
                  ELSE (msg' \notin DecompressorFailures /\ LinkLengthSeen) =>
                          /\ Rejected <=> ~LinkLengthIsSize
                          /\ Rejected => msg' = "size error in symlink"
            [] call.mode \in {"chr", "blk"} ->
                  Rejected <=> (call.offset # 0)
            [] call.mode \in {"fifo", "sock"} ->
                  Rejected <=> (call.offset # 0 \/ call.size # 0)
            [] OTHER -> Rejected /\ msg' \in {"bogus mode",
                                    "special file has non-zero offset"}]_vars

\* C10's case: a symbolic link with an offset and a size was rejected for
\* the length of its target.
C10_Witness ==
    /\ Exited
    /\ msg = "size error in symlink"
    /\ status = << FSCK_UNCORRECTED >>
    /\ call.mode = "lnk"
    /\ call.offset # 0
    /\ call.size # 0

\* The inode of the j-th directory that is open: the root, or the child
\* record the directory below it on the stack has read last.
OpenDirInode(j) ==
    IF j = 1 THEN super.root ELSE img[stack[j - 1].offset - InodeSize]

\* C11: a run without -x ends with an exit code on every finite image; the
\* descent returns even when the record of a child directory points at or
\* before the payload of a directory that encloses it, the tests of the
\* offsets stopping it: no directory with children is entered while a
\* directory with the same payload is open, which would read the same
\* records again without end.
C11_DescentReturns ==
    ~env.opt_extract =>
        \A j, k \in 1 .. Len(stack) :
            (j < k /\ OpenDirInode(k).size > 0) =>
                OpenDirInode(j).offset # OpenDirInode(k).offset

\* The symbolic link dispatched has passed the test of its length, so
\* that line 609 has stored the NUL behind its target, at index size.
LinkTerminated ==
    \/ pc' # "exited"
    \/ msg' \in {"symlink failed", "lchown failed", "killed by a signal"}

\* C12: every write into the scratch buffer lands at an index in
\* [0, 2 * 4096), in every compression mode: the buffer keeps its 2 * 4096
\* bytes whatever the decompressor yields and whatever a hole is filled
\* with, and the NUL that do_symlink() stores at index size, after a
\* decompressed length equal to the size of the inode, is a byte of it.
C12_ScratchWritesInBounds ==
    [][/\ RunsLen(outbuffer') = 2 * POLYFS_BLOCK_SIZE
       /\ (Dispatching({"lnk"}) /\ LinkTerminated) =>
             call.size < 2 * POLYFS_BLOCK_SIZE]_vars

====
